---- MODULE Spec2Model ----
(***************************************************************************)
(* WebSocketHandler (client/src/components/VideoCall.tsx, lines 137-327):  *)
(* a reconnecting WebSocket manager with exponential backoff, a heartbeat  *)
(* interval and a type-tag dispatch registry.                              *)
(*                                                                         *)
(* The browser is single threaded: every callback (onopen, onclose,        *)
(* onerror, onmessage, the three timer callbacks) and every public method  *)
(* runs to completion, so each one is one atomic action.  A handler is     *)
(* written as a function from a state record to a state record, composed  *)
(* in the order of the statements of the source.                           *)
(***************************************************************************)
EXTENDS Integers, Sequences, FiniteSets, TLC

\* ----------------------------------------------------------------- bounds
\* WebSocket objects that exist at the same time (the current one plus
\* replaced ones whose close event is still to come).
MaxTransports == 2
\* Identifiers handed out by window.setTimeout for reconnect timers.
MaxTimerId == 2
\* Identifiers handed out by window.setInterval for the heartbeat.
MaxIntervalId == 2

\* ------------------------------------------------------ program constants
maxRetries == 3
baseDelayMs == 1000
maxDelayMs == 10000

Transports == 1..MaxTransports
TimerIds == 1..MaxTimerId
IntervalIds == 1..MaxIntervalId

\* null, for the fields ws, reconnectTimer and pingInterval
Null == 0

\* WebSocket.readyState; "NONE" is a slot that holds no WebSocket object
ReadyStates == {"NONE", "CONNECTING", "OPEN", "CLOSING", "CLOSED"}

Rooms == {"r1"}
\* the type tags a consumer registers, and those the peer sends
Types == {"chat"}
InboundTypes == {"chat", "unknown"}
Handlers == {"h1", "h2"}
NoHandler == "none"
NoFrame == [type |-> "none", roomId |-> ""]
\* an inbound frame without a top-level error field has error = NoField
NoField == "absent"
NoData == [parsable |-> FALSE, type |-> "none", error |-> NoField]
\* JavaScript truthiness of message.error: a missing field and the empty
\* string are falsy
Truthy(v) == v # NoField /\ v # ""

Min(a, b) == IF a < b THEN a ELSE b

VARIABLES
  ws,                \* this.ws: the current transport, or Null
  readyState,        \* readyState of every WebSocket object
  connectionTimeout, \* per connect() call: its connectionTimeout is armed
  messageHandlers,   \* this.messageHandlers
  isConnected,       \* this.isConnected
  reconnectTimer,    \* this.reconnectTimer (an id, possibly of a dead timer)
  retryCount,        \* this.retryCount
  retryDelay,        \* this.retryDelay
  pingInterval,      \* this.pingInterval
  roomId,            \* this.roomId
  urlValid,          \* window.location gives a URL new WebSocket() accepts
  timeouts,          \* the event loop: live reconnect timers, id -> delay
  intervals,         \* the event loop: live heartbeat intervals
  obs,               \* observation of the transports' outbound traffic
  hist,              \* observation of the run so far
  ev,                \* the callback or method that ran last
  fx                 \* observation of what it did

vars == <<ws, readyState, connectionTimeout, messageHandlers, isConnected,
          reconnectTimer, retryCount, retryDelay, pingInterval, roomId,
          urlValid, timeouts, intervals, obs, hist, ev, fx>>

\* The state as one record, so that the handlers compose.
State ==
  [ws |-> ws, readyState |-> readyState,
   connectionTimeout |-> connectionTimeout,
   messageHandlers |-> messageHandlers, isConnected |-> isConnected,
   reconnectTimer |-> reconnectTimer, retryCount |-> retryCount,
   retryDelay |-> retryDelay, pingInterval |-> pingInterval,
   roomId |-> roomId, urlValid |-> urlValid, timeouts |-> timeouts, intervals |-> intervals,
   obs |-> obs, hist |-> hist, ev |-> ev, fx |-> fx]

\* The effects of one callback, empty when it starts.
NoFx ==
  [connect |-> FALSE,     \* connect() was invoked
   reconnect |-> 0,       \* handleReconnect() was invoked this many times
   created |-> Null,      \* the WebSocket connect() created
   armed |-> <<>>,        \* delays of the reconnect timers armed
   cleared |-> 0,         \* live reconnect timers cancelled
   pingArmed |-> FALSE,   \* setInterval was called
   wsClosed |-> {},       \* transports on which ws.close() was called
   sink |-> <<>>,         \* errors handed to onError
   sent |-> <<>>,         \* frames handed to ws.send: [t, frame, rs]
   message |-> NoFrame,   \* the argument of the consumer's send(message)
   data |-> NoData,       \* the frame ws.onmessage received
   registered |-> <<>>,   \* onMessage calls: [type, handler]
   invoked |-> <<>>]      \* handlers invoked: [handler, message]

Begin(e) == [State EXCEPT !.ev = e, !.fx = NoFx]

NoObs == [opened |-> "no", first |-> NoFrame, joins |-> 0]

\* --------------------------------------------------------- browser pieces
\* this.onError?.(error)
onError(s, kind) ==
  [s EXCEPT !.fx.sink = Append(@, kind),
            !.hist.exhausted = @ \/ kind = "exhausted",
            !.hist.exhaustedSinceOpen = @ \/ kind = "exhausted"]

\* WebSocket.close(): CONNECTING and OPEN go to CLOSING, the close event
\* comes later; a no-op on CLOSING and CLOSED.
wsClose(s, t) ==
  [s EXCEPT !.readyState[t] =
               IF @ \in {"CONNECTING", "OPEN"} THEN "CLOSING" ELSE @,
            !.fx.wsClosed = @ \cup {t}]

\* WebSocket.send(data) on the current transport
wsSend(s, frame) ==
  LET t == s.ws IN
  [s EXCEPT !.fx.sent = Append(@, [t |-> t, frame |-> frame,
                                   rs |-> s.readyState[t]]),
            !.obs[t].first = IF @ = NoFrame THEN frame ELSE @,
            !.obs[t].joins = IF frame.type = "join" THEN Min(@ + 1, 2) ELSE @]

clearTimeout(s, id) ==
  [s EXCEPT !.timeouts[id] = 0,
            !.fx.cleared = IF s.timeouts[id] # 0 THEN @ + 1 ELSE @]

clearInterval(s, id) == [s EXCEPT !.intervals = @ \ {id}]

\* The id window.setTimeout returns: never one of a live timer, and never the
\* one the manager still holds.
FreshTimerId(s) ==
  LET free == {i \in TimerIds : s.timeouts[i] = 0 /\ i # s.reconnectTimer}
  IN IF free # {} THEN CHOOSE i \in free : \A j \in free : i <= j
     ELSE CHOOSE i \in TimerIds : \A j \in TimerIds : i >= j

FreshIntervalId(s) ==
  LET free == {i \in IntervalIds : i \notin s.intervals /\ i # s.pingInterval}
  IN IF free # {} THEN CHOOSE i \in free : \A j \in free : i <= j
     ELSE CHOOSE i \in IntervalIds : \A j \in IntervalIds : i >= j

\* A WebSocket object that is closed and no longer referenced by the manager
\* delivers no further event: its slot is free again.
Release(s) ==
  LET dead(t) == s.readyState[t] = "CLOSED" /\ t # s.ws IN
  [s EXCEPT !.readyState = [t \in Transports |->
                              IF dead(t) THEN "NONE" ELSE @[t]],
            !.obs = [t \in Transports |-> IF dead(t) THEN NoObs ELSE @[t]]]

FreeTransports(s) == {t \in Transports : Release(s).readyState[t] = "NONE"}

IsOpen(s) == s.ws # Null /\ s.readyState[s.ws] = "OPEN"

\* --------------------------------------------------------------- methods
\* handleReconnect() without the clearTimeout of lines 260-262
handleReconnectNoClear(s) ==
  LET s0 == [s EXCEPT !.fx.reconnect = @ + 1] IN
  IF s0.retryCount < maxRetries
  THEN LET id == FreshTimerId(s0) IN
       [s0 EXCEPT !.retryCount = @ + 1,
                  !.timeouts[id] = s0.retryDelay,
                  !.reconnectTimer = id,
                  !.retryDelay = Min(@ * 2, maxDelayMs),
                  !.fx.armed = Append(@, s0.retryDelay),
                  !.hist.delays = Append(@, s0.retryDelay)]
  ELSE onError(s0, "exhausted")

\* handleReconnect() with line 273 moved before the setTimeout of line 268
handleReconnectDoubleFirst(s) ==
  LET s0 == [s EXCEPT !.fx.reconnect = @ + 1]
      s1 == IF s0.reconnectTimer # Null
            THEN clearTimeout(s0, s0.reconnectTimer) ELSE s0
  IN IF s1.retryCount < maxRetries
     THEN LET id == FreshTimerId(s1)
              d == Min(s1.retryDelay * 2, maxDelayMs)
          IN [s1 EXCEPT !.retryCount = @ + 1,
                        !.timeouts[id] = d,
                        !.reconnectTimer = id,
                        !.retryDelay = d,
                        !.fx.armed = Append(@, d),
                        !.hist.delays = Append(@, d)]
     ELSE onError(s1, "exhausted")

\* handleReconnect(), lines 259-278
handleReconnect(s) ==
  LET s0 == [s EXCEPT !.fx.reconnect = @ + 1]
      s1 == IF s0.reconnectTimer # Null
            THEN clearTimeout(s0, s0.reconnectTimer) ELSE s0
  IN IF s1.retryCount < maxRetries
     THEN LET id == FreshTimerId(s1) IN
          [s1 EXCEPT !.retryCount = @ + 1,
                     !.timeouts[id] = s1.retryDelay,
                     !.reconnectTimer = id,
                     !.retryDelay = Min(@ * 2, maxDelayMs),
                     !.fx.armed = Append(@, s1.retryDelay),
                     !.hist.delays = Append(@, s1.retryDelay)]
     ELSE onError(s1, "exhausted")

\* send(message) without the readyState test of line 281
sendNoGuard(s, message) ==
  IF s.ws = Null
  THEN handleReconnect(s)
  ELSE IF message.type = "circular"
       THEN onError(s, "send")
       ELSE wsSend(s, message)

\* send(message), lines 280-295.  JSON.stringify throws on a message that
\* cannot be serialised (message.type = "circular").
send(s, message) ==
  IF s.ws = Null \/ s.readyState[s.ws] # "OPEN"
  THEN handleReconnect(s)
  ELSE IF message.type = "circular"
       THEN onError(s, "send")
       ELSE wsSend(s, message)

\* setupPing(), lines 162-176 (the interval callback is pingCallback)
setupPing(s) ==
  LET s1 == IF s.pingInterval # Null
            THEN clearInterval(s, s.pingInterval) ELSE s
      id == FreshIntervalId(s1)
  IN [s1 EXCEPT !.intervals = @ \cup {id},
                !.pingInterval = id,
                !.fx.pingArmed = TRUE]

\* the setInterval callback without the readyState test of line 168 and
\* with ws.send in place of this.send
pingCallbackUnchecked(s) ==
  IF s.ws # Null THEN wsSend(s, [type |-> "ping", roomId |-> ""]) ELSE s

\* the setInterval callback, lines 167-175
pingCallback(s) ==
  IF IsOpen(s) THEN send(s, [type |-> "ping", roomId |-> ""]) ELSE s

\* connect() without the early return of lines 180-183
connectNoEarlyReturn(s) ==
  LET s0 == [s EXCEPT !.fx.connect = TRUE]
      s1 == IF s0.ws # Null
            THEN [wsClose(s0, s0.ws) EXCEPT !.ws = Null] ELSE s0
  IN IF ~s.urlValid
     THEN handleReconnect(onError(s1, "setup"))
     ELSE LET s2 == Release(s1)
              t == CHOOSE x \in FreeTransports(s1) :
                     \A y \in FreeTransports(s1) : x <= y
          IN [s2 EXCEPT !.ws = t,
                        !.readyState[t] = "CONNECTING",
                        !.connectionTimeout[t] = TRUE,
                        !.obs[t] = NoObs,
                        !.fx.created = t]

\* connect(), lines 178-257.  new WebSocket(wsUrl) throws on a URL it cannot
\* parse, which the catch block of line 252 handles; the URL is a function of
\* window.location (lines 155-160), the same at every call.
connect(s) ==
  LET s0 == [s EXCEPT !.fx.connect = TRUE] IN
  IF IsOpen(s0) THEN s0
  ELSE LET s1 == IF s0.ws # Null
                 THEN [wsClose(s0, s0.ws) EXCEPT !.ws = Null] ELSE s0
       IN IF ~s.urlValid
          THEN handleReconnect(onError(s1, "setup"))
          ELSE LET s2 == Release(s1)
                   t == CHOOSE x \in FreeTransports(s1) :
                          \A y \in FreeTransports(s1) : x <= y
               IN [s2 EXCEPT !.ws = t,
                             !.readyState[t] = "CONNECTING",
                             !.connectionTimeout[t] = TRUE,
                             !.obs[t] = NoObs,
                             !.fx.created = t]

\* connect() can run: it returns early, throws, or a WebSocket can be made
CanConnect(s) == IsOpen(s) \/ ~s.urlValid \/ FreeTransports(s) # {}

\* the connectionTimeout callback, lines 195-201
connectionTimeoutCallback(s) ==
  IF ~IsOpen(s)
  THEN handleReconnect(IF s.ws # Null THEN wsClose(s, s.ws) ELSE s)
  ELSE s

\* ws.onopen of the WebSocket connect() created as t, lines 203-212
onopen(s, t) ==
  LET s1 == [s EXCEPT !.connectionTimeout[t] = FALSE,
                      !.isConnected = TRUE,
                      !.retryCount = 0,
                      !.retryDelay = baseDelayMs]
  IN send(setupPing(s1), [type |-> "join", roomId |-> s.roomId])

\* ws.onclose without the handleReconnect() of line 223
oncloseNoReconnect(s, t) ==
  LET s1 == [s EXCEPT !.connectionTimeout[t] = FALSE]
      s2 == IF s1.pingInterval # Null
            THEN [clearInterval(s1, s1.pingInterval)
                    EXCEPT !.pingInterval = Null]
            ELSE s1
  IN [s2 EXCEPT !.isConnected = FALSE]

\* ws.onclose, lines 214-224
onclose(s, t) ==
  LET s1 == [s EXCEPT !.connectionTimeout[t] = FALSE]
      s2 == IF s1.pingInterval # Null
            THEN [clearInterval(s1, s1.pingInterval)
                    EXCEPT !.pingInterval = Null]
            ELSE s1
  IN handleReconnect([s2 EXCEPT !.isConnected = FALSE])

\* ws.onerror, lines 226-229
onerror(s) == onError(s, "connection")

\* ws.onmessage that treats a frame it cannot parse as a connection failure
onmessageReconnectOnParseError(s, data) ==
  LET s0 == [s EXCEPT !.fx.data = data] IN
  IF ~data.parsable THEN handleReconnect(onError(s0, "parse"))
  ELSE IF Truthy(data.error) THEN onError(s0, "server")
  ELSE LET handler == IF data.type \in DOMAIN s0.messageHandlers
                      THEN s0.messageHandlers[data.type] ELSE NoHandler IN
       IF handler # NoHandler
       THEN [s0 EXCEPT !.fx.invoked =
               Append(@, [handler |-> handler, message |-> data])]
       ELSE s0

\* ws.onmessage with the handler lookup of lines 242-245 moved before the
\* error test of line 236
onmessageDispatchFirst(s, data) ==
  LET s0 == [s EXCEPT !.fx.data = data] IN
  IF ~data.parsable THEN onError(s0, "parse")
  ELSE LET handler == IF data.type \in DOMAIN s0.messageHandlers
                      THEN s0.messageHandlers[data.type] ELSE NoHandler
           s1 == IF handler # NoHandler
                 THEN [s0 EXCEPT !.fx.invoked =
                         Append(@, [handler |-> handler, message |-> data])]
                 ELSE s0
       IN IF Truthy(data.error) THEN onError(s1, "server") ELSE s1

\* ws.onmessage, lines 231-250.  data: [parsable, type, error]; everything
\* JSON.parse throws on a frame it cannot parse, `if (message.error)` tests
\* truthiness.
onmessage(s, data) ==
  LET s0 == [s EXCEPT !.fx.data = data] IN
  IF ~data.parsable THEN onError(s0, "parse")
  ELSE IF Truthy(data.error) THEN onError(s0, "server")
  ELSE LET handler == IF data.type \in DOMAIN s0.messageHandlers
                      THEN s0.messageHandlers[data.type] ELSE NoHandler IN
       IF handler # NoHandler
       THEN [s0 EXCEPT !.fx.invoked =
               Append(@, [handler |-> handler, message |-> data])]
       ELSE s0

\* onMessage(type, handler) that keeps a handler already registered
onMessageKeepFirst(s, type, handler) ==
  LET s0 == [s EXCEPT !.fx.registered =
                        Append(@, [type |-> type, handler |-> handler])] IN
  IF s0.messageHandlers[type] # NoHandler THEN s0
  ELSE [s0 EXCEPT !.messageHandlers[type] = handler]

\* onMessage(type, handler), lines 297-300
onMessage(s, type, handler) ==
  [s EXCEPT !.messageHandlers[type] = handler,
            !.fx.registered = Append(@, [type |-> type, handler |-> handler])]

\* close(), lines 302-326
close(s) ==
  LET s1 == IF s.reconnectTimer # Null
            THEN [clearTimeout(s, s.reconnectTimer)
                    EXCEPT !.reconnectTimer = Null]
            ELSE s
      s2 == IF s1.pingInterval # Null
            THEN [clearInterval(s1, s1.pingInterval)
                    EXCEPT !.pingInterval = Null]
            ELSE s1
      s3 == IF s2.ws # Null
            THEN LET a == [s2 EXCEPT !.retryCount = maxRetries]
                     b == IF a.readyState[a.ws] = "OPEN"
                          THEN wsClose(a, a.ws) ELSE a
                 IN [b EXCEPT !.ws = Null]
            ELSE s2
  IN [s3 EXCEPT !.isConnected = FALSE,
                !.messageHandlers = [ty \in Types |-> NoHandler],
                !.hist.closed = TRUE]

\* ------------------------------------------------------------ the machine
Commit(s0) ==
  LET s == Release(s0) IN
  /\ ws' = s.ws
  /\ readyState' = s.readyState
  /\ connectionTimeout' = s.connectionTimeout
  /\ messageHandlers' = s.messageHandlers
  /\ isConnected' = s.isConnected
  /\ reconnectTimer' = s.reconnectTimer
  /\ retryCount' = s.retryCount
  /\ retryDelay' = s.retryDelay
  /\ pingInterval' = s.pingInterval
  /\ roomId' = s.roomId
  /\ urlValid' = s.urlValid
  /\ timeouts' = s.timeouts
  /\ intervals' = s.intervals
  /\ obs' = s.obs
  /\ hist' = s.hist
  /\ ev' = s.ev
  /\ fx' = s.fx

\* The fields as the class declares them, lines 138-145, before the
\* constructor body runs.
Fresh(room, valid) ==
  [ws |-> Null,
   readyState |-> [t \in Transports |-> "NONE"],
   connectionTimeout |-> [t \in Transports |-> FALSE],
   messageHandlers |-> [ty \in Types |-> NoHandler],
   isConnected |-> FALSE,
   reconnectTimer |-> Null,
   retryCount |-> 0,
   retryDelay |-> baseDelayMs,
   pingInterval |-> Null,
   roomId |-> room,
   urlValid |-> valid,
   timeouts |-> [i \in TimerIds |-> 0],
   intervals |-> {},
   obs |-> [t \in Transports |-> NoObs],
   hist |-> [closed |-> FALSE, exhausted |-> FALSE,
             exhaustedSinceOpen |-> FALSE, delays |-> <<>>,
             retried |-> FALSE],
   ev |-> "new",
   fx |-> NoFx]

\* constructor, lines 147-153: the state once connect() has returned
Init ==
  \E room \in Rooms, valid \in BOOLEAN :
    LET s == connect(Fresh(room, valid)) IN
    /\ ws = s.ws
    /\ readyState = s.readyState
    /\ connectionTimeout = s.connectionTimeout
    /\ messageHandlers = s.messageHandlers
    /\ isConnected = s.isConnected
    /\ reconnectTimer = s.reconnectTimer
    /\ retryCount = s.retryCount
    /\ retryDelay = s.retryDelay
    /\ pingInterval = s.pingInterval
    /\ roomId = s.roomId
    /\ urlValid = s.urlValid
    /\ timeouts = s.timeouts
    /\ intervals = s.intervals
    /\ obs = s.obs
    /\ hist = s.hist
    /\ ev = s.ev
    /\ fx = s.fx

\* The transport t opens: the open event.
WsOpen(t) ==
  /\ readyState[t] = "CONNECTING"
  /\ LET s0 == Begin("open")
         s1 == [s0 EXCEPT !.readyState[t] = "OPEN",
                          !.obs[t].opened =
                             IF s0.hist.closed THEN "stray" ELSE "live",
                          !.hist.delays = <<>>,
                          !.hist.retried = FALSE,
                          !.hist.exhaustedSinceOpen = FALSE]
     IN Commit(onopen(s1, t))

\* The transport t is closed (by the peer, the network, or as the end of a
\* local ws.close()): the close event.
WsClose(t) ==
  /\ readyState[t] \in {"CONNECTING", "OPEN", "CLOSING"}
  /\ LET s0 == Begin("close")
         s1 == [s0 EXCEPT !.readyState[t] = "CLOSED"]
     IN Commit(onclose(s1, t))

\* The connection of t fails: the browser fires the error event and then the
\* close event in the same task.
WsError(t) ==
  /\ readyState[t] \in {"CONNECTING", "OPEN", "CLOSING"}
  /\ LET s0 == Begin("error")
         s1 == [s0 EXCEPT !.readyState[t] = "CLOSED"]
     IN Commit(onclose(onerror(s1), t))

\* The frames the peer sends: with and without an error field, of a type
\* that can have a handler and of one that has none, with an error field
\* that is the empty string, and one JSON.parse rejects.
Inbound ==
  [parsable : {TRUE}, type : InboundTypes, error : {NoField, "boom"}]
    \cup {[parsable |-> TRUE, type |-> "chat", error |-> ""],
          [parsable |-> FALSE, type |-> "none", error |-> NoField]}

\* A frame arrives on t (the browser delivers messages only while OPEN).
WsMessage(t) ==
  /\ readyState[t] = "OPEN"
  /\ \E data \in Inbound : Commit(onmessage(Begin("message"), data))

\* The connectionTimeout of the connect() call that created t fires.
ConnectionTimeout(t) ==
  /\ connectionTimeout[t]
  /\ LET s0 == Begin("timeout")
         s1 == [s0 EXCEPT !.connectionTimeout[t] = FALSE]
     IN Commit(connectionTimeoutCallback(s1))

\* A reconnect timer fires, lines 268-271.
ReconnectFire(id) ==
  /\ timeouts[id] # 0
  /\ LET s0 == Begin("retry")
         s1 == [s0 EXCEPT !.timeouts[id] = 0, !.reconnectTimer = Null,
                          !.hist.retried = TRUE]
     IN /\ CanConnect(s1)
        /\ Commit(connect(s1))

\* A heartbeat interval ticks.
PingTick(id) ==
  /\ id \in intervals
  /\ Commit(pingCallback(Begin("tick")))

Messages == {[type |-> "chat", roomId |-> ""], [type |-> "circular", roomId |-> ""]}

\* The consumer calls send(message).
Send ==
  \E message \in Messages :
    Commit(send([Begin("send") EXCEPT !.fx.message = message], message))

\* The consumer calls onMessage(type, handler).
OnMessage ==
  \E ty \in Types, h \in Handlers :
    Commit(onMessage(Begin("onMessage"), ty, h))

\* The consumer calls close().
Close == Commit(close(Begin("close()")))

Next ==
  \/ \E t \in Transports : WsOpen(t)
  \/ \E t \in Transports : WsClose(t)
  \/ \E t \in Transports : WsError(t)
  \/ \E t \in Transports : WsMessage(t)
  \/ \E t \in Transports : ConnectionTimeout(t)
  \/ \E id \in TimerIds : ReconnectFire(id)
  \/ \E id \in IntervalIds : PingTick(id)
  \/ Send
  \/ OnMessage
  \/ Close

Spec == Init /\ [][Next]_vars

\* A manager close() is never called on, with the scheduling the browser
\* guarantees: as long as a transport is connecting or closing or a timer is
\* armed, one of the events they owe is delivered.
LiveNext ==
  \/ \E t \in Transports : WsOpen(t)
  \/ \E t \in Transports : WsClose(t)
  \/ \E t \in Transports : WsError(t)
  \/ \E t \in Transports : WsMessage(t)
  \/ \E t \in Transports : ConnectionTimeout(t)
  \/ \E id \in TimerIds : ReconnectFire(id)
  \/ \E id \in IntervalIds : PingTick(id)
  \/ Send
  \/ OnMessage

\* The browser owes the manager an event: a transport is connecting or
\* closing, a connection timeout is armed, or a reconnect timer is armed.
ProgressOwed ==
  \/ \E t \in Transports : readyState[t] \in {"CONNECTING", "CLOSING"}
  \/ \E t \in Transports : connectionTimeout[t]
  \/ \E id \in TimerIds : timeouts[id] # 0 /\ CanConnect(State)

\* What the browser holds for the manager; every step of WsOpen, WsClose,
\* WsError, ConnectionTimeout and ReconnectFire changes it.
Browser == <<ev, readyState, connectionTimeout, timeouts>>

\* A step of WsOpen, WsClose, WsError, ConnectionTimeout or ReconnectFire,
\* told by ev, which names the callback of every step.  It is written over
\* the variables of Browser alone, so that it is enabled exactly when
\* ProgressOwed holds.
Progress ==
  /\ ProgressOwed
  /\ ev' \in {"open", "close", "error", "timeout", "retry"}
  /\ readyState' \in [Transports -> ReadyStates]
  /\ connectionTimeout' \in [Transports -> BOOLEAN]
  /\ timeouts' \in [TimerIds -> 0..maxDelayMs]

\* As long as an event is owed, one is delivered.  Weaker than fairness of
\* every transport and every timer on its own, so what holds under it holds
\* under theirs.
Fairness == WF_Browser(Progress)

\* ProgressOwed is the enabling condition of those five actions.
RealProgress ==
  \/ \E t \in Transports :
       /\ readyState[t] \in {"CONNECTING", "CLOSING"}
       /\ (WsOpen(t) \/ WsClose(t) \/ WsError(t))
  \/ \E t \in Transports : ConnectionTimeout(t)
  \/ \E id \in TimerIds : ReconnectFire(id)

ProgressOwedIsEnabled == ProgressOwed <=> ENABLED RealProgress

LiveSpec == Init /\ [][LiveNext]_vars /\ Fairness

\* ------------------------------------------------------------- vocabulary
LiveTimers == {i \in TimerIds : timeouts[i] # 0}

\* the manager's current transport is Open
Open == ws # Null /\ readyState[ws] = "OPEN"

JoinFrame == [type |-> "join", roomId |-> roomId]

Backoff == <<1000, 2000, 4000>>

IsPrefix(a, b) == Len(a) <= Len(b) /\ \A i \in 1..Len(a) : a[i] = b[i]

Reported(kind) == \E i \in 1..Len(fx.sink) : fx.sink[i] = kind

\* ------------------------------------------------------------------ C1
\* C1: once close() has returned, no reconnect timer and no heartbeat
\* interval is armed, connect() is not invoked and no transport is created,
\* whatever event or send() call arrives later.  (Stated for a page whose
\* URL the WebSocket constructor accepts, the case of every deployment.)
C1_CloseIsTotal ==
  (hist.closed /\ urlValid) =>
    /\ LiveTimers = {}
    /\ intervals = {}
    /\ fx.armed = <<>>
    /\ ~fx.pingArmed
    /\ ~fx.connect
    /\ fx.created = Null

\* ------------------------------------------------------------------ C2
\* C2: every transport that has opened carries exactly one join frame with
\* the manager's room identifier, and the join is the first frame sent on it.
C2_JoinOncePerOpen ==
  \A t \in Transports :
    obs[t].opened # "no" => obs[t].joins = 1 /\ obs[t].first = JoinFrame

\* The same for the transports that opened before close() was called; this
\* part of C2 holds.
C2_JoinOncePerOpenBeforeClose ==
  \A t \in Transports :
    /\ obs[t].opened = "live" => obs[t].joins = 1 /\ obs[t].first = JoinFrame
    /\ obs[t].opened = "no" => obs[t].joins = 0 /\ obs[t].first = NoFrame

\* ------------------------------------------------------------------ C3
\* C3: the reconnect timers armed since the last open (or since construction)
\* carry the delays 1000, 2000, 4000 in that order; the timer a failure arms
\* is the only live one and carries the delay it was armed with; a failure
\* after the third arms no timer, leaves none pending and reports the
\* exhaustion error.
C3_BackoffDelays ==
  /\ IsPrefix(hist.delays, Backoff)
  /\ ~hist.closed => retryCount = Len(hist.delays)
  /\ retryCount < maxRetries => retryDelay = Backoff[retryCount + 1]
  /\ fx.armed # <<>> =>
       /\ fx.armed = <<hist.delays[Len(hist.delays)]>>
       /\ \E i \in TimerIds :
            LiveTimers = {i} /\ timeouts[i] = fx.armed[1] /\ reconnectTimer = i
  /\ (fx.reconnect > 0 /\ fx.armed = <<>>) =>
       /\ Reported("exhausted")
       /\ LiveTimers = {}
       /\ retryCount = maxRetries
       /\ ~hist.closed => hist.delays = Backoff

\* the fourth consecutive close event: three timers were armed since the last
\* open, and this close event armed none and reported exhaustion
C3_Witness ==
  /\ ev = "close"
  /\ ~hist.closed
  /\ hist.delays = Backoff
  /\ fx.armed = <<>>
  /\ Reported("exhausted")

\* ------------------------------------------------------------------ C4
\* C4: once the exhaustion error has been reported (on a manager close() was
\* not called on), no reconnect timer is armed, retryCount is not reset and
\* the manager has no Open transport.
C4_ExhaustionIsTerminal ==
  (hist.exhausted /\ ~hist.closed) =>
    /\ LiveTimers = {}
    /\ retryCount = maxRetries
    /\ ~Open

\* ------------------------------------------------------------------ C5
\* C5: at most one reconnect timer and at most one heartbeat interval is
\* live, each the one the manager holds the id of; a failure that arms a
\* timer leaves exactly one pending, also when one was pending before.
C5_SingleTimers ==
  /\ Cardinality(LiveTimers) <= 1
  /\ LiveTimers \subseteq {reconnectTimer}
  /\ Cardinality(intervals) <= 1
  /\ intervals \subseteq {pingInterval}
  /\ fx.armed # <<>> => Len(fx.armed) = 1 /\ Cardinality(LiveTimers) = 1
  /\ fx.pingArmed => Cardinality(intervals) = 1

\* a second failure while the first retry timer was pending: the pending one
\* was cancelled and one was armed
C5_Witness ==
  /\ fx.cleared = 1
  /\ Len(fx.armed) = 1
  /\ Cardinality(LiveTimers) = 1

\* ------------------------------------------------------------------ C6
\* C6: every ping frame handed to a transport is handed to the manager's
\* current transport while it is OPEN; a tick that finds the transport
\* absent or not OPEN sends nothing.
C6_PingOnlyWhileOpen ==
  /\ \A i \in 1..Len(fx.sent) :
       fx.sent[i].frame.type = "ping" =>
         fx.sent[i].rs = "OPEN" /\ fx.sent[i].t = ws
  /\ (ev = "tick" /\ ~Open) => fx.sent = <<>>

\* a heartbeat tick that fired while the manager had no OPEN transport
C6_Witness == ev = "tick" /\ ~Open /\ fx.sent = <<>>

\* ------------------------------------------------------------------ C7
\* C7: whenever the current transport is Open and close() has not been
\* called, a heartbeat interval is armed.
C7_HeartbeatWhileOpen ==
  (Open /\ ~hist.closed) => intervals # {} /\ pingInterval \in intervals

\* ------------------------------------------------------------------ C8
\* C8: a second close() changes no transport handle, timer, retry counter or
\* connected flag and has no side effect (no ws.close(), no error-sink call).
\* (The handler registry is left out: it is what a consumer registered after
\* the first close(), which the second close() clears.  Stated for a page
\* whose URL the WebSocket constructor accepts.)
C8_CloseIdempotent ==
  [][(hist.closed /\ urlValid /\ ev' = "close()") =>
       /\ ws' = ws
       /\ readyState' = readyState
       /\ timeouts' = timeouts
       /\ intervals' = intervals
       /\ reconnectTimer' = reconnectTimer
       /\ pingInterval' = pingInterval
       /\ retryCount' = retryCount
       /\ retryDelay' = retryDelay
       /\ isConnected' = isConnected
       /\ fx'.wsClosed = {}
       /\ fx'.sink = <<>>]_vars

\* ------------------------------------------------------------------ C9
\* C9: after close(), a transport close event or error event arms no
\* reconnect timer and no heartbeat interval and makes no reconnect attempt.
C9_LateCloseIsInert ==
  (hist.closed /\ ev \in {"close", "error"}) =>
    /\ fx.armed = <<>>
    /\ ~fx.pingArmed
    /\ ~fx.connect
    /\ LiveTimers = {}

\* ------------------------------------------------------------------ C10
\* C10: on a manager close() is never called on, under the fairness of
\* LiveSpec, every state without an Open transport is followed by a state
\* where the transport is Open or the exhaustion error has been reported
\* since the last open (or since construction).
C10_NoSilentOutage == [](~Open => <>(Open \/ hist.exhaustedSinceOpen))

\* the manager recovered: the transport made by a retry is Open
C10_Witness == Open /\ ws = 2 /\ ~hist.exhaustedSinceOpen

\* ------------------------------------------------------------------ C11
\* C11: a send(message) called while the current transport is not Open hands
\* no frame to any transport and invokes handleReconnect once; one called
\* while it is Open hands exactly that message, once, to the current
\* transport; and nothing is queued: the only frames any other step hands to
\* a transport are the join of an open event and the ping of a heartbeat
\* tick.
C11_SendTransmitsOrDrops ==
  [][/\ ev' = "send" =>
          IF Open
          THEN fx'.sent = <<[t |-> ws, frame |-> fx'.message, rs |-> "OPEN"]>>
          ELSE fx'.sent = <<>> /\ fx'.reconnect = 1
     /\ ev' \notin {"send", "open", "tick"} => fx'.sent = <<>>
     /\ ev' = "open" =>
          \A i \in 1..Len(fx'.sent) : fx'.sent[i].frame.type = "join"
     /\ ev' = "tick" =>
          \A i \in 1..Len(fx'.sent) : fx'.sent[i].frame.type = "ping"]_vars

\* C11 as the code has it: the same, where a message JSON.stringify cannot
\* serialise is, while Open, handed to no transport and reported to the
\* error sink once, without invoking handleReconnect.
C11_SendTransmitsSerialisableOrDrops ==
  [][/\ ev' = "send" =>
          IF ~Open
          THEN fx'.sent = <<>> /\ fx'.reconnect = 1
          ELSE IF fx'.message.type # "circular"
          THEN /\ fx'.sent =
                    <<[t |-> ws, frame |-> fx'.message, rs |-> "OPEN"]>>
               /\ fx'.sink = <<>>
               /\ fx'.reconnect = 0
          ELSE /\ fx'.sent = <<>>
               /\ fx'.sink = <<"send">>
               /\ fx'.reconnect = 0
     /\ ev' \notin {"send", "open", "tick"} => fx'.sent = <<>>
     /\ ev' = "open" =>
          \A i \in 1..Len(fx'.sent) : fx'.sent[i].frame.type = "join"
     /\ ev' = "tick" =>
          \A i \in 1..Len(fx'.sent) : fx'.sent[i].frame.type = "ping"]_vars

\* a send() found the transport connecting: the message was dropped and a
\* reconnect timer armed
C11_Witness ==
  /\ ev = "send"
  /\ ws # Null
  /\ readyState[ws] = "CONNECTING"
  /\ fx.message.type = "chat"
  /\ fx.sent = <<>>
  /\ fx.reconnect = 1
  /\ Len(fx.armed) = 1

\* what a frame must leave alone: the transports, the connected flag, the
\* retry state, both timers and the connection timeouts
ConnectionUnchanged ==
  UNCHANGED <<ws, readyState, connectionTimeout, isConnected, reconnectTimer,
              retryCount, retryDelay, pingInterval, timeouts, intervals>>

\* the handler registered for a type tag, NoHandler if there is none
Registered(type) ==
  IF type \in DOMAIN messageHandlers THEN messageHandlers[type] ELSE NoHandler

\* ------------------------------------------------------------------ C12
\* C12: a well-formed inbound frame without an error field invokes the
\* handler registered for its type exactly once, with the frame, and no other
\* handler; with no handler registered it invokes nothing and the error sink
\* is not called.  onMessage(type, handler) replaces the handler of that tag
\* and of no other (last write wins), and only onMessage and close() change
\* the registry.
C12_Dispatch ==
  [][/\ (ev' = "message" /\ fx'.data.parsable /\ fx'.data.error = NoField) =>
          IF Registered(fx'.data.type) # NoHandler
          THEN fx'.invoked = <<[handler |-> Registered(fx'.data.type),
                                message |-> fx'.data]>>
          ELSE fx'.invoked = <<>> /\ fx'.sink = <<>>
     /\ ev' = "onMessage" =>
          /\ Len(fx'.registered) = 1
          /\ messageHandlers' =
               [messageHandlers EXCEPT ![fx'.registered[1].type] =
                                          fx'.registered[1].handler]
     /\ ev' \notin {"onMessage", "close()"} =>
          messageHandlers' = messageHandlers]_vars

\* a chat frame was dispatched to the handler registered for "chat", once
C12_Witness ==
  /\ ev = "message"
  /\ fx.data = [parsable |-> TRUE, type |-> "chat", error |-> NoField]
  /\ messageHandlers["chat"] = "h2"
  /\ fx.invoked = <<[handler |-> "h2", message |-> fx.data]>>
  /\ fx.sink = <<>>

C14_ParseFailureIsLocal ==
  [][(ev' = "message" /\ ~fx'.data.parsable) =>
       /\ fx'.sink = <<"parse">>
       /\ fx'.invoked = <<>>
       /\ fx'.reconnect = 0
       /\ ~fx'.connect
       /\ fx'.wsClosed = {}
       /\ messageHandlers' = messageHandlers
       /\ ConnectionUnchanged]_vars

\* a frame JSON.parse rejects arrived on the Open transport while a handler
\* was registered
C14_Witness ==
  /\ ev = "message"
  /\ ~fx.data.parsable
  /\ Open
  /\ messageHandlers["chat"] # NoHandler
  /\ fx.sink = <<"parse">>

\* the close event or error event of this step is that of transport t
ClosedNow(t) ==
  /\ readyState[t] \in {"CONNECTING", "OPEN", "CLOSING"}
  /\ readyState'[t] \in {"CLOSED", "NONE"}

\* ------------------------------------------------------------------ C15
\* C15: the close event of a transport that close() has just closed arms no
\* reconnect timer, invokes no connect() and hands nothing to the error sink.
C15_LocalCloseEventIsInert ==
  [][\A t \in Transports :
       (ev = "close()" /\ t \in fx.wsClosed /\ ev' = "close" /\ ClosedNow(t)) =>
         /\ fx'.armed = <<>>
         /\ ~fx'.connect
         /\ fx'.sink = <<>>]_vars

\* ------------------------------------------------------------------ C16
\* C16: a connection timeout that aborts the connecting transport runs
\* handleReconnect once, and the close event of the transport it has just
\* aborted does not run it again: the close event leaves retryCount and
\* retryDelay as the timeout left them.
C16_TimeoutCountedOnce ==
  [][/\ (ev' = "timeout" /\ fx'.wsClosed # {}) => fx'.reconnect = 1
     /\ \A t \in Transports :
          (ev = "timeout" /\ t \in fx.wsClosed /\ ev' = "close" /\ ClosedNow(t))
            => /\ fx'.reconnect = 0
               /\ retryCount' = retryCount
               /\ retryDelay' = retryDelay]_vars

\* ------------------------------------------------------------------ C17
\* C17: when the exhaustion error is reported on a manager close() was not
\* called on, the reconnect timer has fired and run connect() since the last
\* open or since construction (maxRetries times, so at least once); and a
\* send() while not Open leaves retryCount and retryDelay alone and cancels
\* no pending timer without arming one.
C17_ExhaustionAfterRealAttempts ==
  [][/\ ((\E i \in 1..Len(fx'.sink) : fx'.sink[i] = "exhausted")
            /\ ~hist'.closed)
          => hist'.retried
     /\ ev' = "send" =>
          /\ retryCount' = retryCount
          /\ retryDelay' = retryDelay
          /\ fx'.cleared > 0 => fx'.armed # <<>>]_vars

\* ------------------------------------------------------------------ C18
\* C18: retryCount stays within 0..maxRetries and retryDelay within
\* baseDelayMs..maxDelayMs; retryDelay does not decrease in a step that is
\* not an open event; and the state an open event leaves has retryCount = 0
\* and retryDelay = baseDelayMs.
C18_RetryState ==
  /\ [](/\ retryCount \in 0..maxRetries
        /\ retryDelay \in baseDelayMs..maxDelayMs)
  /\ [][/\ ev' # "open" => retryDelay' >= retryDelay
        /\ ev' = "open" => retryCount' = 0 /\ retryDelay' = baseDelayMs]_vars

\* The same for the open events that come before close() is called; this
\* part of C18 holds.
C18_RetryStateBeforeClose ==
  /\ [](/\ retryCount \in 0..maxRetries
        /\ retryDelay \in baseDelayMs..maxDelayMs)
  /\ [][/\ ev' # "open" => retryDelay' >= retryDelay
        /\ (ev' = "open" /\ ~hist.closed) =>
             retryCount' = 0 /\ retryDelay' = baseDelayMs]_vars

\* ------------------------------------------------------------------ C19
\* C19: whenever the manager has no Open current transport (it is absent,
\* closed, closing or a new attempt still connecting) or close() has been
\* called, no heartbeat interval is armed.
C19_NoHeartbeatUnlessOpen ==
  (~Open \/ hist.closed) => intervals = {}

\* The same on a manager close() has not been called on; this part of C19
\* holds.
C19_NoHeartbeatUnlessOpenBeforeClose ==
  (~Open /\ ~hist.closed) => intervals = {}

\* ------------------------------------------------------------------ C20
\* C20: while the current transport is Open, a reconnect timer that fires
\* and a connection timeout that fires (of whichever attempt) call ws.close()
\* on no transport, create none, leave the current transport current and
\* Open, and send nothing (no further join); and the current transport stops
\* being the Open current one only in a close() call or in its own close or
\* error event.
C20_HealthyConnectionKept ==
  [][/\ (Open /\ ev' \in {"retry", "timeout"}) =>
          /\ ws' = ws
          /\ readyState'[ws] = "OPEN"
          /\ fx'.wsClosed = {}
          /\ fx'.created = Null
          /\ fx'.sent = <<>>
          /\ fx'.reconnect = 0
     /\ (Open /\ ~(ws' = ws /\ readyState'[ws] = "OPEN")) =>
          \/ ev' = "close()"
          \/ ev' \in {"close", "error"} /\ ClosedNow(ws)]_vars

\* a reconnect timer fired while the current transport was Open: connect()
\* ran and left it alone
C20_Witness ==
  /\ ev = "retry"
  /\ fx.connect
  /\ Open
  /\ fx.created = Null
  /\ fx.wsClosed = {}

====
